---------------------------- MODULE Spec2Model ----------------------------
(***************************************************************************)
(* Model of the gesture recognition core of GestureRecognition_mobidev:    *)
(*   - GestureClassifier (src/gesture_recognition/gesture_classifier.py),  *)
(*     the rule-based classification of a hand skeleton;                   *)
(*   - ARInterface (src/gesture_recognition/ar_interface.py), the session  *)
(*     controller: camera start/stop, callback registry, process_frame,    *)
(*     the run_realtime and capture_gesture_data loops, cleanup;            *)
(*   - HandTracker.close (src/gesture_recognition/hand_tracker.py).        *)
(*                                                                         *)
(* Numbers.  Landmark coordinates are normalised floats in the program.    *)
(* Here they lie on a grid of 1/100: the integer 50 stands for 0.50.  A    *)
(* distance d < 0.05 is compared as d^2 < 5^2 in grid units, so no square  *)
(* root is needed and the arithmetic is exact.  Confidences are in         *)
(* hundredths as well: 90 stands for 0.9, 70 for 0.7.                      *)
(*                                                                         *)
(* A landmark list is a sequence; the program's landmarks[i] (0-based) is  *)
(* landmarks[i + 1] here, written Lm(landmarks, i).  The z coordinate is   *)
(* never read by the classifier and is left out.                           *)
(***************************************************************************)
EXTENDS Integers, Sequences, FiniteSets

VARIABLES
    \* --- classifier harness (SpecClassifier) ---
    landmarks,          \* the argument of classify_gesture
    gesture_result,     \* what classify_gesture returned for it (Pending before the call)
    \* --- ARInterface fields ---
    is_running,         \* self.is_running
    cap,                \* self.cap: "None", or the state of the VideoCapture it refers to
    gesture_callbacks,  \* self.gesture_callbacks: gesture type -> callback
    current_gesture,    \* self.current_gesture
    gesture_confidence, \* self.gesture_confidence
    \* --- collaborators ---
    hands_closed,       \* whether HandTracker.hands (the MediaPipe graph) was closed
    orphans,            \* opened VideoCapture objects self.cap no longer refers to,
                        \* which the controller never released
    \* --- control and the locals of capture_gesture_data ---
    pc,                 \* "idle", or the loop the controller is inside
    clock,              \* time.time() - start_time, in ticks
    duration,           \* duration_seconds, in ticks
    gesture_data,       \* the list being accumulated, then returned
    \* --- environment of run_realtime ---
    signal,             \* an event that has reached the process and that the run loop
                        \* has not observed yet: "quit" (q is in the key buffer),
                        \* "no_frame" (the next cap.read() gives no frame),
                        \* "interrupt" (SIGINT delivered), or "none"
    \* --- observation of the most recent operation (call, or step of a loop) ---
    ret,                \* [op, outcome, value]
    gesture_info,       \* the gesture_info it built, NoInfo if it processed no frame
    invoked,            \* the callbacks it invoked, in order
    detected,           \* how many hands detect_hands returned to it, -1 if it
                        \* processed no frame or detect_hands raised
    first_hand,         \* the landmarks of the first of those hands, <<>> if none
    setup,              \* what camera setup did if it called start_camera, else "n/a"
    \* --- history ---
    last_hand_result,   \* <<gesture, confidence>> of the gesture_info of the most
                        \* recent process_frame that found a hand
    last_registered     \* gesture type -> callback most recently registered for it

vars == <<landmarks, gesture_result, is_running, cap, gesture_callbacks,
          current_gesture, gesture_confidence, hands_closed, orphans, pc,
          clock, duration, gesture_data, signal, ret, gesture_info, invoked,
          detected, first_hand, setup, last_hand_result, last_registered>>

classifierVars == <<landmarks, gesture_result>>

sessionVars == <<is_running, cap, gesture_callbacks, current_gesture,
                 gesture_confidence, hands_closed, orphans, pc, clock,
                 duration, gesture_data, signal, ret, gesture_info, invoked,
                 detected, first_hand, setup, last_hand_result, last_registered>>

-----------------------------------------------------------------------------
(* GestureType and the classifier's constants *)

GestureType ==
    {"NONE", "POINT", "OPEN_PALM", "FIST", "THUMBS_UP", "PEACE", "OK_SIGN", "PINCH"}

NumLandmarks == 21      \* len(landmarks) < 21
OkSignThreshold == 5    \* distance < 0.05
PinchThreshold == 3     \* distance < 0.03
ThumbRatioNum == 12     \* mcp_to_wrist * 1.2  (1.2 = 12/10)
ThumbRatioDen == 10

Pt(px, py) == [x |-> px, y |-> py]

Lm(lms, i) == lms[i + 1]

Dist2(p, q) == (p.x - q.x) * (p.x - q.x) + (p.y - q.y) * (p.y - q.y)

\* fingers = {'thumb': [1,2,3,4], 'index': [5,6,7,8], ...}
fingers ==
    [thumb  |-> <<1, 2, 3, 4>>,
     index  |-> <<5, 6, 7, 8>>,
     middle |-> <<9, 10, 11, 12>>,
     ring   |-> <<13, 14, 15, 16>>,
     pinky  |-> <<17, 18, 19, 20>>]

\* A plausible slip: >= for >, so that exactly 1.2 times counts as extended.
IsThumbExtended_AtLeast(lms, indices) ==
    LET thumb_tip == Lm(lms, indices[4])
        thumb_mcp == Lm(lms, indices[1])
        wrist     == Lm(lms, 0)
    IN  ThumbRatioDen * ThumbRatioDen * Dist2(thumb_tip, wrist)
            >= ThumbRatioNum * ThumbRatioNum * Dist2(thumb_mcp, wrist)

\* tip_to_wrist > mcp_to_wrist * 1.2, both sides non-negative, so squared
IsThumbExtended(lms, indices) ==
    LET thumb_tip == Lm(lms, indices[4])
        thumb_mcp == Lm(lms, indices[1])
        wrist     == Lm(lms, 0)
    IN  ThumbRatioDen * ThumbRatioDen * Dist2(thumb_tip, wrist)
            > ThumbRatioNum * ThumbRatioNum * Dist2(thumb_mcp, wrist)

\* tip_y < mcp_y for the four fingers, _is_thumb_extended for the thumb
GetFingerStates(lms) ==
    [finger_name \in DOMAIN fingers |->
        IF finger_name = "thumb"
        THEN IsThumbExtended(lms, fingers[finger_name])
        ELSE Lm(lms, fingers[finger_name][4]).y < Lm(lms, fingers[finger_name][1]).y]

\* A plausible slip: the pinky test left out of the pointing pattern.
IsPointingGesture_NoPinkyTest(fs) ==
    fs.index /\ ~fs.middle /\ ~fs.ring

IsPointingGesture(fs) ==
    fs.index /\ ~fs.middle /\ ~fs.ring /\ ~fs.pinky

IsOpenPalm(fs) == \A f \in DOMAIN fs : fs[f]

IsFist(fs) == ~(\E f \in DOMAIN fs : fs[f])

IsThumbsUp(fs) ==
    fs.thumb /\ ~fs.index /\ ~fs.middle /\ ~fs.ring /\ ~fs.pinky

IsPeaceSign(fs) ==
    fs.index /\ fs.middle /\ ~fs.ring /\ ~fs.pinky

IsOkSign(lms, fs) ==
    IF ~fs.middle \/ ~fs.ring \/ ~fs.pinky
    THEN FALSE
    ELSE Dist2(Lm(lms, 4), Lm(lms, 8)) < OkSignThreshold * OkSignThreshold

IsPinchGesture(lms) ==
    Dist2(Lm(lms, 4), Lm(lms, 8)) < PinchThreshold * PinchThreshold

Result(g, c, d) == [gesture |-> g, confidence |-> c, description |-> d]

\* A plausible slip: the OK-sign test placed before the open-palm test.
AnalyzeGesturePattern_OkSignBeforePalm(lms, fs) ==
    IF IsPointingGesture(fs) THEN Result("POINT", 90, "Pointing gesture detected")
    ELSE IF IsOkSign(lms, fs) THEN Result("OK_SIGN", 80, "OK sign detected")
    ELSE IF IsOpenPalm(fs) THEN Result("OPEN_PALM", 90, "Open palm gesture detected")
    ELSE IF IsFist(fs) THEN Result("FIST", 90, "Fist gesture detected")
    ELSE IF IsThumbsUp(fs) THEN Result("THUMBS_UP", 80, "Thumbs up gesture detected")
    ELSE IF IsPeaceSign(fs) THEN Result("PEACE", 80, "Peace sign detected")
    ELSE IF IsPinchGesture(lms) THEN Result("PINCH", 80, "Pinch gesture detected")
    ELSE Result("NONE", 0, "No recognized gesture")

\* A plausible slip: the pinch test placed before the OK-sign test.
AnalyzeGesturePattern_PinchFirst(lms, fs) ==
    IF IsPointingGesture(fs) THEN Result("POINT", 90, "Pointing gesture detected")
    ELSE IF IsOpenPalm(fs) THEN Result("OPEN_PALM", 90, "Open palm gesture detected")
    ELSE IF IsFist(fs) THEN Result("FIST", 90, "Fist gesture detected")
    ELSE IF IsThumbsUp(fs) THEN Result("THUMBS_UP", 80, "Thumbs up gesture detected")
    ELSE IF IsPeaceSign(fs) THEN Result("PEACE", 80, "Peace sign detected")
    ELSE IF IsPinchGesture(lms) THEN Result("PINCH", 80, "Pinch gesture detected")
    ELSE IF IsOkSign(lms, fs) THEN Result("OK_SIGN", 80, "OK sign detected")
    ELSE Result("NONE", 0, "No recognized gesture")

\* the if/elif chain of _analyze_gesture_pattern
AnalyzeGesturePattern(lms, fs) ==
    IF IsPointingGesture(fs) THEN Result("POINT", 90, "Pointing gesture detected")
    ELSE IF IsOpenPalm(fs) THEN Result("OPEN_PALM", 90, "Open palm gesture detected")
    ELSE IF IsFist(fs) THEN Result("FIST", 90, "Fist gesture detected")
    ELSE IF IsThumbsUp(fs) THEN Result("THUMBS_UP", 80, "Thumbs up gesture detected")
    ELSE IF IsPeaceSign(fs) THEN Result("PEACE", 80, "Peace sign detected")
    ELSE IF IsOkSign(lms, fs) THEN Result("OK_SIGN", 80, "OK sign detected")
    ELSE IF IsPinchGesture(lms) THEN Result("PINCH", 80, "Pinch gesture detected")
    ELSE Result("NONE", 0, "No recognized gesture")

\* A plausible slip: an off-by-one length guard.  A list of 20 landmarks then
\* reaches _get_finger_states, whose landmarks[20] raises IndexError.
ClassifyGesture_ShortGuard(lms) ==
    IF Len(lms) < NumLandmarks - 1
    THEN Result("NONE", 0, "No valid hand detected")
    ELSE IF Len(lms) < NumLandmarks
    THEN Result("NONE", 0, "IndexError")
    ELSE AnalyzeGesturePattern(lms, GetFingerStates(lms))

ClassifyGesture(lms) ==
    IF Len(lms) < NumLandmarks
    THEN Result("NONE", 0, "No valid hand detected")
    ELSE AnalyzeGesturePattern(lms, GetFingerStates(lms))

-----------------------------------------------------------------------------
(* Landmark lists the classifier is exercised on.                          *)
(* The wrist is at (0.50, 0.90) and the thumb base at (0.50, 0.80), so     *)
(* mcp_to_wrist is 0.10 and the thumb is extended iff its tip is more than *)
(* 0.12 away from the wrist.  The base joints of the four fingers have     *)
(* y = 0.50 (middle, ring, pinky) or a chosen y (index).  The index tip is *)
(* placed at a chosen offset from the thumb tip, which fixes the           *)
(* thumb-tip-to-index-tip distance.                                        *)

Wrist == Pt(50, 90)

ThumbMcp == Pt(50, 80)

\* distance to the wrist: 0.05 (bent), 0.12 (exactly 1.2x: bent), 0.13 (extended)
ThumbTips == {Pt(50, 85), Pt(50, 78), Pt(50, 77)}

\* index tip minus thumb tip; squared distances 4, 8, 9, 16, 25, 400
Offsets == {Pt(0, -2), Pt(2, 2), Pt(0, -3), Pt(0, -4), Pt(3, 4), Pt(0, -20)}

\* y of the index base joint: above every index tip used (index bent), or below (extended)
IndexMcpYs == {40, 95}

\* y of a finger tip whose base joint has y = 50: extended, level (bent), bent
TipYs == {40, 50, 60}

MakeSkeleton(thumbTip, off, indexMcpY, midY, ringY, pinkyY) ==
    [i \in 1..NumLandmarks |->
        CASE i - 1 = 0  -> Wrist
          [] i - 1 = 1  -> ThumbMcp
          [] i - 1 = 4  -> thumbTip
          [] i - 1 = 5  -> Pt(45, indexMcpY)
          [] i - 1 = 8  -> Pt(thumbTip.x + off.x, thumbTip.y + off.y)
          [] i - 1 = 12 -> Pt(50, midY)
          [] i - 1 = 16 -> Pt(55, ringY)
          [] i - 1 = 20 -> Pt(60, pinkyY)
          [] OTHER      -> Pt(50, 50)]

Skeletons ==
    {MakeSkeleton(t, o, im, m, r, p) :
        t \in ThumbTips, o \in Offsets, im \in IndexMcpYs,
        m \in TipYs, r \in TipYs, p \in TipYs}

\* every length 0..20, cut from two full skeletons
ShortLists ==
    {SubSeq(sk, 1, n) :
        sk \in {MakeSkeleton(Pt(50, 77), Pt(0, -2), 40, 40, 40, 40),
                MakeSkeleton(Pt(50, 85), Pt(0, -20), 95, 60, 60, 60)},
        n \in 0..(NumLandmarks - 1)}

ClassifierInputs == Skeletons \cup ShortLists

Pending == Result("NONE", 0, "pending")

-----------------------------------------------------------------------------
(* The session controller: constants and inputs *)

MaxHands == 2       \* HandTracker(max_num_hands=2): hands the detector returns at most
MaxOrphans == 1     \* bound: handles overwritten while still open
MaxDuration == 1    \* bound: duration_seconds of capture_gesture_data, in ticks

DispatchThreshold == 70     \* self.gesture_confidence > 0.7

Callbacks == {"c1", "c2"}

\* the gesture types callbacks are registered for in the runs explored: one a
\* rule can produce (confidence 0.8), and NONE
RegistrableTypes == {"THUMBS_UP", "NONE"}

PointHand     == MakeSkeleton(Pt(50, 85), Pt(0, -20), 95, 60, 60, 60)
ThumbsUpHand  == MakeSkeleton(Pt(50, 77), Pt(0, -20), 40, 60, 60, 60)
NoGestureHand == MakeSkeleton(Pt(50, 85), Pt(0, -20), 40, 40, 60, 60)
ShortHand     == SubSeq(PointHand, 1, NumLandmarks - 1)

\* the skeletons the detector hands to the session: confidence 0.9 (POINT,
\* never registered here), confidence 0.8 (THUMBS_UP), no rule matches, too short
SessionSkeletons == {PointHand, ThumbsUpHand, NoGestureHand, ShortHand}

\* hand_landmarks_list of detect_hands: up to n entries {'landmarks': ...}
RECURSIVE HandLists(_)
HandLists(n) ==
    IF n = 0 THEN {<<>>}
    ELSE HandLists(n - 1) \cup
         {Append(hs, [landmarks |-> sk]) :
             hs \in {h \in HandLists(n - 1) : Len(h) = n - 1}, sk \in SessionSkeletons}

DetectorOutputs == HandLists(MaxHands)

\* One frame as the session sees it: what detect_hands returns, and what goes
\* wrong while the frame is processed: nothing, detect_hands raises, or the
\* callback that is invoked (if one is) raises.
Frames ==
    {[hands |-> h, fault |-> f] : h \in DetectorOutputs, f \in {"none", "callback"}}
        \cup {[hands |-> <<>>, fault |-> "detector"]}

\* cv2.VideoCapture(...) and the two cap.set(...) calls of start_camera
SetupOutcomes ==
    {"opened", "unopened", "ctor_raises", "set_raises_opened", "set_raises_unopened"}

\* {}: the empty callback registry
EmptyDict == [k \in {} |-> "c1"]

\* the events run_realtime reacts to: the quit key, a failed cap.read(), SIGINT
Signals == {"quit", "no_frame", "interrupt"}

\* no frame was processed
NoInfo == [gesture |-> "NONE", confidence |-> 0, description |-> "", hand_count |-> 0]

Ret(op, outcome, value) == [op |-> op, outcome |-> outcome, value |-> value]

-----------------------------------------------------------------------------
(* Initial state of an ARInterface (__init__) *)

SessionInit ==
    /\ is_running = FALSE
    /\ cap = "None"
    /\ gesture_callbacks = EmptyDict
    /\ current_gesture = "NONE"
    /\ gesture_confidence = 0
    /\ hands_closed = FALSE
    /\ orphans = 0
    /\ pc = "idle"
    /\ clock = 0
    /\ duration = 0
    /\ gesture_data = <<>>
    /\ signal = "none"
    /\ ret = Ret("__init__", "return", "None")
    /\ gesture_info = NoInfo
    /\ invoked = <<>>
    /\ detected = -1
    /\ first_hand = <<>>
    /\ setup = "n/a"
    /\ last_hand_result = <<"NONE", 0>>
    /\ last_registered = EmptyDict

\* the operation processed no frame
NoFrame ==
    /\ gesture_info' = NoInfo
    /\ invoked' = <<>>
    /\ detected' = -1
    /\ first_hand' = <<>>

\* the operation did not call start_camera
NoSetup == setup' = "n/a"

\* the locals of capture_gesture_data are gone once another operation runs
NoCaptureLocals ==
    /\ clock' = 0
    /\ duration' = 0
    /\ gesture_data' = <<>>

-----------------------------------------------------------------------------
(* start_camera, stop_camera *)

\* the VideoCapture self.cap refers to after start_camera
CapAfterStart(o) ==
    CASE o = "opened"              -> "opened"
      [] o = "unopened"            -> "unopened"
      [] o = "ctor_raises"         -> cap
      [] o = "set_raises_opened"   -> "opened"
      [] o = "set_raises_unopened" -> "unopened"

\* A plausible slip: is_running set before the isOpened() check.
RunningAfterStart_SetEarly(o) ==
    IF o \in {"opened", "unopened"} THEN TRUE ELSE is_running

\* self.is_running after start_camera: set only past the isOpened() check
RunningAfterStart(o) ==
    IF o = "opened" THEN TRUE ELSE is_running

\* the value start_camera returns
StartCameraReturns(o) == o = "opened"

\* whether start_camera leaves an opened handle behind unreleased
Overwrites(o) == cap = "opened" /\ o # "ctor_raises"

\* the count of such handles is kept within MaxOrphans
CanStart(o) == Overwrites(o) => orphans < MaxOrphans

StartCameraEffect(o) ==
    /\ cap' = CapAfterStart(o)
    /\ is_running' = RunningAfterStart(o)
    /\ orphans' = IF Overwrites(o) THEN orphans + 1 ELSE orphans
    /\ setup' = o

\* A plausible slip: a stop that clears the flag and forgets the handle.
CapAfterStop_NoRelease == cap

\* if self.cap: self.cap.release()  (a VideoCapture object is always truthy)
CapAfterStop == IF cap = "None" THEN "None" ELSE "released"

StopCameraEffect ==
    /\ is_running' = FALSE
    /\ cap' = CapAfterStop

-----------------------------------------------------------------------------
(* register_gesture_callback, process_frame, get_current_gesture *)

\* A plausible slip: dict.setdefault, which keeps an existing entry.
DictSet_KeepFirst(d, k, v) ==
    [x \in DOMAIN d \cup {k} |-> IF x \in DOMAIN d THEN d[x] ELSE v]

\* d[k] = v
DictSet(d, k, v) ==
    [x \in DOMAIN d \cup {k} |-> IF x = k THEN v ELSE d[x]]

\* gesture_info = {NONE, 0.0, 'No hands detected', len(hand_landmarks_list)},
\* then gesture_info.update(gesture_result) when a hand was detected;
\* result is the classification of the first hand
GestureInfo(hands, result) ==
    IF hands = <<>>
    THEN [gesture |-> "NONE", confidence |-> 0,
          description |-> "No hands detected", hand_count |-> Len(hands)]
    ELSE [gesture |-> result.gesture, confidence |-> result.confidence,
          description |-> result.description, hand_count |-> Len(hands)]

\* A plausible slip: the session state written only for a recognised gesture.
NewSessionState_SkipNone(hands, result) ==
    IF hands = <<>> \/ result.gesture = "NONE"
    THEN <<current_gesture, gesture_confidence>>
    ELSE <<result.gesture, result.confidence>>

\* A plausible slip: the session state reset by a frame without hands.
NewSessionState_ResetOnEmpty(hands, result) ==
    IF hands = <<>>
    THEN <<"NONE", 0>>
    ELSE <<result.gesture, result.confidence>>

\* <<self.current_gesture, self.gesture_confidence>> after process_frame
NewSessionState(hands, result) ==
    IF hands = <<>>
    THEN <<current_gesture, gesture_confidence>>
    ELSE <<result.gesture, result.confidence>>

\* A plausible slip: a stricter gate, which shuts out the 0.8 gestures.
ShouldDispatch_Above80(confidence, gesture, callbacks) ==
    confidence > 80 /\ gesture \in DOMAIN callbacks

\* A plausible slip: the confidence gate left out, registration alone decides.
ShouldDispatch_NoConfidenceGate(confidence, gesture, callbacks) ==
    gesture \in DOMAIN callbacks

\* self.gesture_confidence > 0.7 and self.current_gesture in self.gesture_callbacks
ShouldDispatch(confidence, gesture, callbacks) ==
    confidence > DispatchThreshold /\ gesture \in DOMAIN callbacks

\* the callbacks process_frame invokes, in order, each with the key it was
\* looked up under; state is <<current_gesture, gesture_confidence>> as just written
Dispatched(hands, state) ==
    IF hands # <<>> /\ ShouldDispatch(state[2], state[1], gesture_callbacks)
    THEN << [key |-> state[1], callback |-> gesture_callbacks[state[1]]] >>
    ELSE <<>>

\* A plausible slip: the last detected hand classified instead of the first.
ClassifiedHand_Last(hands) == hands[Len(hands)].landmarks

\* landmarks = hand_landmarks_list[0]['landmarks']
ClassifiedHand(hands) == hands[1].landmarks

\* the effect of one process_frame call on the controller; when detect_hands
\* raises nothing has been written yet
ProcessFrameEffect(frame) ==
    IF frame.fault = "detector"
    THEN /\ UNCHANGED <<current_gesture, gesture_confidence, last_hand_result>>
         /\ NoFrame
    ELSE LET hands  == frame.hands
             result == IF hands = <<>> THEN Pending
                       ELSE ClassifyGesture(ClassifiedHand(hands))
             info   == GestureInfo(hands, result)
             state  == NewSessionState(hands, result)
         IN  /\ current_gesture' = state[1]
             /\ gesture_confidence' = state[2]
             /\ gesture_info' = info
             /\ invoked' = Dispatched(hands, state)
             /\ detected' = Len(hands)
             /\ first_hand' = IF hands = <<>> THEN <<>> ELSE hands[1].landmarks
             /\ last_hand_result' = IF hands = <<>> THEN last_hand_result
                                    ELSE <<info.gesture, info.confidence>>

\* whether that call raises instead of returning (read after ProcessFrameEffect)
ProcessFrameRaises(frame) ==
    \/ frame.fault = "detector"
    \/ frame.fault = "callback" /\ invoked' # <<>>

\* get_current_gesture()
GetCurrentGesture == <<current_gesture, gesture_confidence>>

-----------------------------------------------------------------------------
(* The operations of ARInterface, one action each.  A call is made only    *)
(* while no loop is running (pc = "idle"): the program is single-threaded. *)

StartCamera(o) ==
    /\ pc = "idle"
    /\ CanStart(o)
    /\ StartCameraEffect(o)
    /\ ret' = Ret("start_camera", "return", IF StartCameraReturns(o) THEN "True" ELSE "False")
    /\ NoFrame
    /\ NoCaptureLocals
    /\ UNCHANGED <<gesture_callbacks, current_gesture, gesture_confidence, hands_closed,
                   pc, last_hand_result, last_registered>>
    /\ UNCHANGED signal
    /\ UNCHANGED classifierVars

StopCamera ==
    /\ pc = "idle"
    /\ StopCameraEffect
    /\ ret' = Ret("stop_camera", "return", "None")
    /\ NoFrame
    /\ NoCaptureLocals
    /\ UNCHANGED <<gesture_callbacks, current_gesture, gesture_confidence, hands_closed,
                   orphans, pc, last_hand_result, last_registered>>
    /\ NoSetup
    /\ UNCHANGED signal
    /\ UNCHANGED classifierVars

RegisterGestureCallback(g, c) ==
    /\ pc = "idle"
    /\ gesture_callbacks' = DictSet(gesture_callbacks, g, c)
    /\ last_registered' =
           [x \in DOMAIN last_registered \cup {g} |->
               IF x = g THEN c ELSE last_registered[x]]
    /\ ret' = Ret("register_gesture_callback", "return", "None")
    /\ NoFrame
    /\ NoCaptureLocals
    /\ UNCHANGED <<is_running, cap, current_gesture, gesture_confidence, hands_closed,
                   orphans, pc, last_hand_result>>
    /\ NoSetup
    /\ UNCHANGED signal
    /\ UNCHANGED classifierVars

ProcessFrame(frame) ==
    /\ pc = "idle"
    /\ ProcessFrameEffect(frame)
    /\ ret' = Ret("process_frame",
                  IF ProcessFrameRaises(frame) THEN "raise" ELSE "return",
                  IF ProcessFrameRaises(frame) THEN "None" ELSE "gesture_info")
    /\ NoCaptureLocals
    /\ UNCHANGED <<is_running, cap, gesture_callbacks, hands_closed, orphans, pc,
                   last_registered>>
    /\ NoSetup
    /\ UNCHANGED signal
    /\ UNCHANGED classifierVars

\* cleanup: stop_camera(), then hand_tracker.close().  HandTracker.close calls
\* self.hands.close() whenever self.hands is truthy, and self.hands is never
\* cleared, so a second cleanup closes the MediaPipe graph again; the library
\* rejects that (SolutionBase.close raises ValueError on a closed graph).
\* closeAgainRaises leaves the library's answer open.
Cleanup(closeAgainRaises) ==
    /\ pc = "idle"
    /\ StopCameraEffect
    /\ hands_closed' = TRUE
    /\ ret' = Ret("cleanup",
                  IF hands_closed /\ closeAgainRaises THEN "raise" ELSE "return", "None")
    /\ NoFrame
    /\ NoCaptureLocals
    /\ UNCHANGED <<gesture_callbacks, current_gesture, gesture_confidence, orphans, pc,
                   last_hand_result, last_registered>>
    /\ NoSetup
    /\ UNCHANGED signal
    /\ UNCHANGED classifierVars

-----------------------------------------------------------------------------
(* run_realtime: the call up to the loop, then one action per way an       *)
(* iteration of `while self.is_running` can go.                            *)

RunRealtimeStart(o) ==
    /\ pc = "idle"
    /\ CanStart(o)
    /\ StartCameraEffect(o)
    /\ IF StartCameraReturns(o)
       THEN /\ pc' = "run_realtime"
            /\ ret' = Ret("run_realtime", "running", "None")
       ELSE /\ pc' = "idle"
            /\ ret' = Ret("run_realtime", "return", "None")
    /\ NoFrame
    /\ NoCaptureLocals
    /\ UNCHANGED <<gesture_callbacks, current_gesture, gesture_confidence, hands_closed,
                   last_hand_result, last_registered>>
    /\ UNCHANGED signal
    /\ UNCHANGED classifierVars

\* The environment of the loop: the user presses q, the camera stops
\* delivering frames, or SIGINT arrives.  One event is pending at a time; the
\* loop observes it in its next iteration.
Signal(e) ==
    /\ pc = "run_realtime"
    /\ signal = "none"
    /\ signal' = e
    /\ UNCHANGED <<is_running, cap, gesture_callbacks, current_gesture,
                   gesture_confidence, hands_closed, orphans, pc, clock, duration,
                   gesture_data, ret, gesture_info, invoked, detected, first_hand,
                   setup, last_hand_result, last_registered>>
    /\ UNCHANGED classifierVars

\* key = cv2.waitKey(1) & 0xFF: the key in the buffer, if any
KeyPolled == IF signal = "quit" THEN "q" ELSE "no_key"

\* A plausible slip: the key compared with ord('Q'), which q never gives.
QuitPressed_UpperCase(key) == key = "Q"

\* key == ord('q')
QuitPressed(key) == key = "q"

\* ret, frame = self.cap.read(); if not ret: break   -> finally: stop_camera()
RunNoFrame ==
    /\ pc = "run_realtime"
    /\ is_running
    /\ signal = "no_frame"
    /\ StopCameraEffect
    /\ pc' = "idle"
    /\ signal' = "none"
    /\ ret' = Ret("run_realtime", "return", "no_frame")
    /\ NoFrame
    /\ UNCHANGED <<gesture_callbacks, current_gesture, gesture_confidence, hands_closed,
                   orphans, clock, duration, gesture_data, last_hand_result,
                   last_registered>>
    /\ NoSetup
    /\ UNCHANGED classifierVars

\* a frame is read and processed; then the key is polled.  A failure raised by
\* process_frame leaves through `finally`; 'q' breaks; otherwise the loop goes on.
RunFrame(frame) ==
    /\ pc = "run_realtime"
    /\ is_running
    /\ signal \in {"none", "quit"}
    /\ ProcessFrameEffect(frame)
    /\ IF ProcessFrameRaises(frame) \/ QuitPressed(KeyPolled)
       THEN /\ StopCameraEffect
            /\ pc' = "idle"
            /\ signal' = "none"
            /\ ret' = IF ProcessFrameRaises(frame)
                      THEN Ret("run_realtime", "raise", "failure")
                      ELSE Ret("run_realtime", "return", "quit")
       ELSE /\ UNCHANGED <<is_running, cap, pc, signal>>
            /\ ret' = Ret("run_realtime", "running", "None")
    /\ UNCHANGED <<gesture_callbacks, hands_closed, orphans, clock, duration,
                   gesture_data, last_registered>>
    /\ NoSetup
    /\ UNCHANGED classifierVars

\* KeyboardInterrupt inside the loop, raised before the frame is processed (in
\* cap.read) or after it (in imshow / waitKey): except, then finally
RunInterrupt(frame, processed) ==
    /\ pc = "run_realtime"
    /\ is_running
    /\ signal = "interrupt"
    /\ IF processed
       THEN ProcessFrameEffect(frame)
       ELSE /\ UNCHANGED <<current_gesture, gesture_confidence, last_hand_result>>
            /\ NoFrame
    /\ StopCameraEffect
    /\ pc' = "idle"
    /\ signal' = "none"
    /\ ret' = Ret("run_realtime", "return", "interrupted")
    /\ UNCHANGED <<gesture_callbacks, hands_closed, orphans, clock, duration,
                   gesture_data, last_registered>>
    /\ NoSetup
    /\ UNCHANGED classifierVars

-----------------------------------------------------------------------------
(* capture_gesture_data: time.time() - start_time is a clock in ticks that *)
(* one iteration of the loop advances by one.                              *)

CaptureStart(o, d) ==
    /\ pc = "idle"
    /\ CanStart(o)
    /\ StartCameraEffect(o)
    /\ IF StartCameraReturns(o)
       THEN /\ pc' = "capture_gesture_data"
            /\ ret' = Ret("capture_gesture_data", "running", "None")
       ELSE /\ pc' = "idle"
            /\ ret' = Ret("capture_gesture_data", "return", "gesture_data")
    /\ duration' = d
    /\ clock' = 0
    /\ gesture_data' = <<>>
    /\ NoFrame
    /\ UNCHANGED <<gesture_callbacks, current_gesture, gesture_confidence, hands_closed,
                   last_hand_result, last_registered>>
    /\ UNCHANGED signal
    /\ UNCHANGED classifierVars

\* the loop condition fails (time is up), or cap.read() gives no frame:
\* finally: stop_camera(); return gesture_data
CaptureEnds(noFrame) ==
    /\ pc = "capture_gesture_data"
    /\ IF noFrame THEN clock < duration ELSE ~(clock < duration)
    /\ StopCameraEffect
    /\ pc' = "idle"
    /\ ret' = Ret("capture_gesture_data", "return", "gesture_data")
    /\ NoFrame
    /\ UNCHANGED <<gesture_callbacks, current_gesture, gesture_confidence, hands_closed,
                   orphans, clock, duration, gesture_data, last_hand_result,
                   last_registered>>
    /\ NoSetup
    /\ UNCHANGED signal
    /\ UNCHANGED classifierVars

\* a frame is read, processed and recorded; a failure raised by process_frame
\* leaves through `finally` and reaches the caller
CaptureFrame(frame) ==
    /\ pc = "capture_gesture_data"
    /\ clock < duration
    /\ ProcessFrameEffect(frame)
    /\ IF ProcessFrameRaises(frame)
       THEN /\ StopCameraEffect
            /\ pc' = "idle"
            /\ ret' = Ret("capture_gesture_data", "raise", "failure")
            /\ UNCHANGED <<gesture_data, clock>>
       ELSE /\ UNCHANGED <<is_running, cap, pc>>
            /\ ret' = Ret("capture_gesture_data", "running", "None")
            /\ gesture_data' = Append(gesture_data,
                                      [timestamp |-> clock, gesture_info |-> gesture_info'])
            /\ clock' = clock + 1
    /\ UNCHANGED <<gesture_callbacks, hands_closed, orphans, duration, last_registered>>
    /\ NoSetup
    /\ UNCHANGED signal
    /\ UNCHANGED classifierVars

-----------------------------------------------------------------------------
(* The session specification *)

Init ==
    /\ landmarks = <<>>
    /\ gesture_result = Pending
    /\ SessionInit

Next ==
    \/ \E o \in SetupOutcomes : StartCamera(o)
    \/ StopCamera
    \/ \E g \in RegistrableTypes, c \in Callbacks : RegisterGestureCallback(g, c)
    \/ \E frame \in Frames : ProcessFrame(frame)
    \/ \E closeAgainRaises \in BOOLEAN : Cleanup(closeAgainRaises)
    \/ \E o \in SetupOutcomes : RunRealtimeStart(o)
    \/ \E e \in Signals : Signal(e)
    \/ RunNoFrame
    \/ \E frame \in Frames : RunFrame(frame)
    \/ \E frame \in Frames, processed \in BOOLEAN : RunInterrupt(frame, processed)
    \/ \E o \in SetupOutcomes, d \in 0..MaxDuration : CaptureStart(o, d)
    \/ \E noFrame \in BOOLEAN : CaptureEnds(noFrame)
    \/ \E frame \in Frames : CaptureFrame(frame)

Spec == Init /\ [][Next]_vars

-----------------------------------------------------------------------------
(* The run loop on its own, with fairness: registrations and run_realtime  *)
(* calls on a fresh controller.  The loop is the only thread and never     *)
(* waits (waitKey(1) returns after a millisecond), so as long as cap.read, *)
(* detect_hands and the callbacks return, the next iteration is taken.     *)

LoopStep ==
    \/ RunNoFrame
    \/ \E frame \in Frames : RunFrame(frame)
    \/ \E frame \in Frames, processed \in BOOLEAN : RunInterrupt(frame, processed)

NextLoop ==
    \/ \E g \in RegistrableTypes, c \in Callbacks : RegisterGestureCallback(g, c)
    \/ \E o \in SetupOutcomes : RunRealtimeStart(o)
    \/ \E e \in Signals : Signal(e)
    \/ LoopStep

SpecLoop == Init /\ [][NextLoop]_vars /\ WF_vars(LoopStep)

-----------------------------------------------------------------------------
(* The classifier harness: an input is drawn, classify_gesture is applied. *)

InitClassifier ==
    /\ landmarks \in ClassifierInputs
    /\ gesture_result = Pending
    /\ SessionInit

Classify ==
    /\ gesture_result = Pending
    /\ gesture_result' = ClassifyGesture(landmarks)
    /\ UNCHANGED landmarks
    /\ UNCHANGED sessionVars

NextClassifier == Classify

SpecClassifier == InitClassifier /\ [][NextClassifier]_vars

-----------------------------------------------------------------------------
(* Claims about the classifier, checked under SpecClassifier *)

Classified == gesture_result # Pending

FullHand == Len(landmarks) = NumLandmarks

\* the squared thumb-tip-to-index-tip distance of the input, in grid units
TipDistance2 == Dist2(Lm(landmarks, 4), Lm(landmarks, 8))

\* The ordered rule list of the specification over the five booleans and the
\* distance: <<matches, gesture, confidence>>, first match wins.
RuleList(fs, d2) ==
    << <<fs.index /\ ~fs.middle /\ ~fs.ring /\ ~fs.pinky, "POINT", 90>>,
       <<fs.thumb /\ fs.index /\ fs.middle /\ fs.ring /\ fs.pinky, "OPEN_PALM", 90>>,
       <<~fs.thumb /\ ~fs.index /\ ~fs.middle /\ ~fs.ring /\ ~fs.pinky, "FIST", 90>>,
       <<fs.thumb /\ ~fs.index /\ ~fs.middle /\ ~fs.ring /\ ~fs.pinky, "THUMBS_UP", 80>>,
       <<fs.index /\ fs.middle /\ ~fs.ring /\ ~fs.pinky, "PEACE", 80>>,
       <<fs.middle /\ fs.ring /\ fs.pinky /\ d2 < 25, "OK_SIGN", 80>>,
       <<d2 < 9, "PINCH", 80>>,
       <<TRUE, "NONE", 0>> >>

FirstMatch(rules) ==
    LET hits  == {i \in DOMAIN rules : rules[i][1]}
        first == CHOOSE i \in hits : \A j \in hits : i <= j
    IN  rules[first]

\* C2: on a 21-landmark skeleton classify_gesture returns the gesture and the
\* fixed confidence of the first matching rule of the ordered list POINT,
\* OPEN_PALM, FIST, THUMBS_UP, PEACE, OK_SIGN, PINCH, else NONE.
C2_FirstMatchingRule ==
    (Classified /\ FullHand) =>
        LET rule == FirstMatch(RuleList(GetFingerStates(landmarks), TipDistance2))
        IN  /\ gesture_result.gesture = rule[2]
            /\ gesture_result.confidence = rule[3]

\* a pinch-distance skeleton whose thumb is bent while the other four fingers
\* are extended: both OK_SIGN and PINCH match, OK_SIGN is returned
C2_Witness ==
    /\ Classified /\ FullHand
    /\ TipDistance2 < 9
    /\ ~GetFingerStates(landmarks).thumb
    /\ GetFingerStates(landmarks).index
    /\ gesture_result.gesture = "OK_SIGN"

MiddleRingPinkyExtended ==
    LET fs == GetFingerStates(landmarks)
    IN  fs.middle /\ fs.ring /\ fs.pinky

\* C3 as stated: middle, ring and pinky extended and thumb tip within 0.03 of
\* the index tip gives OK_SIGN with confidence 0.8, whatever the thumb and the
\* index are.
C3_Original ==
    (Classified /\ FullHand /\ MiddleRingPinkyExtended /\ TipDistance2 < 9) =>
        /\ gesture_result.gesture = "OK_SIGN"
        /\ gesture_result.confidence = 80

\* C3 amended: such a skeleton is never PINCH; it is OK_SIGN with confidence
\* 0.8 unless thumb and index are both extended as well, and then it is
\* OPEN_PALM with confidence 0.9 (rule 2 precedes rule 6).
C3_OkSignUnlessOpenPalm ==
    (Classified /\ FullHand /\ MiddleRingPinkyExtended /\ TipDistance2 < 9) =>
        LET fs == GetFingerStates(landmarks)
        IN  /\ gesture_result.gesture # "PINCH"
            /\ IF fs.thumb /\ fs.index
               THEN gesture_result.gesture = "OPEN_PALM" /\ gesture_result.confidence = 90
               ELSE gesture_result.gesture = "OK_SIGN" /\ gesture_result.confidence = 80

\* distance 0.02, middle/ring/pinky extended, thumb extended, index bent
C3_Witness ==
    /\ Classified /\ FullHand /\ MiddleRingPinkyExtended
    /\ TipDistance2 = 4
    /\ GetFingerStates(landmarks).thumb
    /\ ~GetFingerStates(landmarks).index
    /\ gesture_result = Result("OK_SIGN", 80, "OK sign detected")

\* C4: a landmark list of length 0..20 is classified NONE with confidence 0.0
\* and description 'No valid hand detected'; that description is the early
\* return's, so no finger-state or distance rule was evaluated.
C4_ShortListIsNone ==
    (Classified /\ Len(landmarks) < 21) =>
        gesture_result = Result("NONE", 0, "No valid hand detected")

\* a list of exactly 20 landmarks has been classified
C4_Witness ==
    /\ Classified
    /\ Len(landmarks) = 20
    /\ gesture_result.gesture = "NONE"

-----------------------------------------------------------------------------
(* Claims about the session controller, checked under Spec.  A frame was   *)
(* processed by the most recent operation iff detected >= 0; the operation *)
(* is a process_frame call, or a step of a loop that calls process_frame.  *)

FrameProcessed == detected >= 0

\* C1: in every process_frame call a callback is invoked iff at least one hand
\* was detected, the confidence of the first hand's classification is
\* strictly above 0.7 and a callback is registered for the classified gesture
\* type; the callback invoked is the one registered for that type and no other.
C1_DispatchIffConfidentAndRegistered ==
    FrameProcessed =>
        /\ invoked # <<>> <=>
               /\ detected >= 1
               /\ gesture_info.confidence > 70
               /\ gesture_info.gesture \in DOMAIN gesture_callbacks
        /\ gesture_info.confidence <= 70 => invoked = <<>>
        /\ invoked # <<>> =>
               /\ Len(invoked) = 1
               /\ invoked[1].key = gesture_info.gesture
               /\ invoked[1].callback = gesture_callbacks[gesture_info.gesture]

\* a THUMBS_UP frame (confidence 0.8) fired the THUMBS_UP callback while a
\* callback for NONE was registered as well
C1_Witness ==
    /\ detected >= 1
    /\ gesture_info.gesture = "THUMBS_UP"
    /\ gesture_info.confidence = 80
    /\ "NONE" \in DOMAIN gesture_callbacks
    /\ Len(invoked) = 1
    /\ invoked[1].key = "THUMBS_UP"

\* C5: get_current_gesture returns (NONE, 0.0) before any frame with a hand
\* was processed, and afterwards the (gesture, confidence) of the result of
\* the most recent process_frame that found a hand.
C5_CurrentIsLastHandResult ==
    GetCurrentGesture = last_hand_result

\* a two-hand POINT frame was processed, no callback fired, and
\* get_current_gesture reports it
C5_Witness ==
    /\ detected = 2
    /\ invoked = <<>>
    /\ gesture_info.gesture = "POINT"
    /\ GetCurrentGesture = <<"POINT", 90>>

\* C6: a process_frame call on a frame without hands returns
\* {NONE, 0.0, 'No hands detected', hand_count 0}, invokes no callback and
\* leaves current_gesture, gesture_confidence and the registry unchanged.
C6_HandlessFrameChangesNothing ==
    [][detected' = 0 =>
          /\ gesture_info' = [gesture |-> "NONE", confidence |-> 0,
                              description |-> "No hands detected", hand_count |-> 0]
          /\ invoked' = <<>>
          /\ current_gesture' = current_gesture
          /\ gesture_confidence' = gesture_confidence
          /\ gesture_callbacks' = gesture_callbacks]_vars

\* a frame without hands was just processed and get_current_gesture still
\* reports the THUMBS_UP seen before, for which a callback is registered
C6_Witness ==
    /\ detected = 0
    /\ gesture_info.description = "No hands detected"
    /\ GetCurrentGesture = <<"THUMBS_UP", 80>>
    /\ "THUMBS_UP" \in DOMAIN gesture_callbacks

\* the ways run_realtime leaves its loop
LoopExits == {"quit", "no_frame", "interrupted", "failure"}

\* C7: when run_realtime hands control back after leaving its loop (quit key,
\* no frame, interruption, or a failure raised while a frame is processed),
\* the camera handle has been released and is_running is false.
C7_RunRealtimeReleasesCamera ==
    (ret.op = "run_realtime" /\ ret.value \in LoopExits) =>
        /\ pc = "idle"
        /\ ret.outcome \in {"return", "raise"}
        /\ cap = "released"
        /\ ~is_running

\* run_realtime was left by a failure raised while a frame was processed
C7_Witness ==
    /\ ret = Ret("run_realtime", "raise", "failure")
    /\ cap = "released"
    /\ ~is_running

\* C8 as stated: cleanup never fails, in whatever state and however often it
\* is called; it leaves the camera released, the landmark model closed and
\* the controller Idle.
C8_CleanupNeverFails ==
    ret.op = "cleanup" =>
        /\ ret.outcome = "return"
        /\ cap \in {"None", "released"}
        /\ hands_closed
        /\ ~is_running

\* C9: start_camera never raises; it returns True exactly when camera setup
\* succeeded, and then the controller is Running; when setup failed
\* (unopened device, or an exception) is_running is left as it was, so an
\* Idle controller stays Idle.
C9_StartCameraStatus ==
    [][ret'.op = "start_camera" =>
          /\ ret'.outcome = "return"
          /\ ret'.value = (IF setup' = "opened" THEN "True" ELSE "False")
          /\ setup' = "opened" => (is_running' /\ cap' = "opened")
          /\ setup' # "opened" => is_running' = is_running
          /\ (~is_running /\ is_running') => ret'.value = "True"]_vars

\* start_camera on an Idle controller found the device unopened, returned
\* False and left the controller Idle
C9_Witness ==
    /\ ret = Ret("start_camera", "return", "False")
    /\ setup = "unopened"
    /\ cap = "unopened"
    /\ ~is_running

\* C10: the registry holds, for each gesture type, exactly the callback most
\* recently registered for it, and a dispatch for a type invokes that callback
\* once and no other.
C10_LastRegistrationWins ==
    /\ DOMAIN gesture_callbacks = DOMAIN last_registered
    /\ \A g \in DOMAIN last_registered : gesture_callbacks[g] = last_registered[g]
    /\ invoked # <<>> =>
           /\ Len(invoked) = 1
           /\ invoked[1].callback = last_registered[invoked[1].key]

\* THUMBS_UP was dispatched to c2 while NONE is registered to c1
C10_Witness ==
    /\ invoked = << [key |-> "THUMBS_UP", callback |-> "c2"] >>
    /\ gesture_callbacks["THUMBS_UP"] = "c2"
    /\ "NONE" \in DOMAIN gesture_callbacks
    /\ gesture_callbacks["NONE"] = "c1"

\* C11: a callback registered for NONE is never invoked, whatever frames are
\* processed: every result with gesture NONE (no hand, a first skeleton of
\* fewer than 21 landmarks, or a skeleton no rule matches) has confidence 0.0,
\* which is not above the dispatch threshold.
C11_NoneCallbackNeverInvoked ==
    /\ \A i \in DOMAIN invoked : invoked[i].key # "NONE"
    /\ (FrameProcessed /\ gesture_info.gesture = "NONE") =>
           /\ gesture_info.confidence = 0
           /\ invoked = <<>>

\* with a callback registered for NONE, a frame whose first hand matches no
\* rule was processed and nothing was invoked
C11_Witness ==
    /\ "NONE" \in DOMAIN gesture_callbacks
    /\ detected >= 1
    /\ gesture_info.gesture = "NONE"
    /\ gesture_info.description = "No recognized gesture"
    /\ invoked = <<>>

-----------------------------------------------------------------------------
(* Further claims about the classifier, checked under SpecClassifier *)

\* tip above base joint (smaller y), read off the input for the four fingers
FourFingers ==
    [index  |-> Lm(landmarks, 8).y < Lm(landmarks, 5).y,
     middle |-> Lm(landmarks, 12).y < Lm(landmarks, 9).y,
     ring   |-> Lm(landmarks, 16).y < Lm(landmarks, 13).y,
     pinky  |-> Lm(landmarks, 20).y < Lm(landmarks, 17).y]

PointPattern == [index |-> TRUE, middle |-> FALSE, ring |-> FALSE, pinky |-> FALSE]

\* in how many of the four booleans the input differs from the pointing pattern
FlipsFromPoint ==
    Cardinality({f \in DOMAIN PointPattern : FourFingers[f] # PointPattern[f]})

\* the thumb tip is more than 1.2 times as far from the wrist as the thumb's
\* base joint is, read off the input / exactly 1.2 times as far
ThumbBeyondRatio ==
    100 * Dist2(Lm(landmarks, 4), Lm(landmarks, 0))
        > 144 * Dist2(Lm(landmarks, 1), Lm(landmarks, 0))

ThumbAtRatio ==
    100 * Dist2(Lm(landmarks, 4), Lm(landmarks, 0))
        = 144 * Dist2(Lm(landmarks, 1), Lm(landmarks, 0))

FourFingersBent == \A f \in DOMAIN FourFingers : ~FourFingers[f]

\* C17: a 21-landmark skeleton whose thumb tip is strictly more than 1.2
\* times as far from the wrist as the thumb's base joint, and whose index,
\* middle, ring and pinky tips are not above their base joints, is classified
\* THUMBS_UP with confidence 0.8; at exactly 1.2 times the thumb does not
\* count as extended and the same skeleton is not THUMBS_UP.
C17_ThumbsUpAboveRatio ==
    (Classified /\ FullHand /\ FourFingersBent) =>
        /\ ThumbBeyondRatio =>
               /\ gesture_result.gesture = "THUMBS_UP"
               /\ gesture_result.confidence = 80
        /\ ThumbAtRatio => gesture_result.gesture # "THUMBS_UP"

\* thumb tip 0.13 from the wrist, base joint 0.10: THUMBS_UP, although the
\* index tip is at a pinch distance from the thumb tip
C17_Witness ==
    /\ Classified
    /\ FullHand
    /\ FourFingersBent
    /\ ThumbBeyondRatio
    /\ Lm(landmarks, 4) = Pt(50, 77)
    /\ TipDistance2 < PinchThreshold * PinchThreshold
    /\ gesture_result = Result("THUMBS_UP", 80, "Thumbs up gesture detected")

\* the boundary case happens: thumb tip exactly 0.12 from the wrist, four
\* fingers bent, classified FIST
C17_BoundaryReached ==
    /\ Classified
    /\ FullHand
    /\ FourFingersBent
    /\ ThumbAtRatio
    /\ gesture_result.gesture = "FIST"

-----------------------------------------------------------------------------
(* Further claims about the session controller, checked under Spec *)

\* C13 as stated: process_frame never escalates a failure to its caller;
\* once the detector has answered, it returns its (annotated_frame, result)
\* pair whatever the invoked callback does.
C13_ProcessFrameAlwaysReturns ==
    (ret.op = "process_frame" /\ detected >= 0) =>
        /\ ret.outcome = "return"
        /\ ret.value = "gesture_info"

\* C16: when detect_hands returns n >= 1 hands, the result carries
\* hand_count = n, while gesture, confidence, description, the session state
\* and the callback dispatched are what the first hand alone gives: frames
\* that agree on the first hand (and meet the same registry) agree on all of
\* these, whatever hands follow.
C16_FirstHandDecides ==
    (FrameProcessed /\ detected >= 1) =>
        LET r == ClassifyGesture(first_hand)
        IN  /\ gesture_info = [gesture |-> r.gesture, confidence |-> r.confidence,
                               description |-> r.description, hand_count |-> detected]
            /\ GetCurrentGesture = <<r.gesture, r.confidence>>
            /\ invoked = IF r.confidence > 70 /\ r.gesture \in DOMAIN gesture_callbacks
                         THEN << [key |-> r.gesture,
                                  callback |-> gesture_callbacks[r.gesture]] >>
                         ELSE <<>>

\* two hands were detected, the first a thumbs-up: hand_count is 2 and the
\* THUMBS_UP callback fired
C16_Witness ==
    /\ detected = 2
    /\ first_hand = ThumbsUpHand
    /\ gesture_info.hand_count = 2
    /\ gesture_info.gesture = "THUMBS_UP"
    /\ invoked # <<>>
    /\ invoked[1].key = "THUMBS_UP"

\* C14 as stated: capture_gesture_data with duration 0 returns an empty list;
\* it processes no frame, invokes no callback, leaves current_gesture and
\* gesture_confidence as they were, and leaves the controller Idle with no
\* opened camera, whether or not the camera could be started.
C14_ZeroDurationCapture ==
    [][(ret'.op = "capture_gesture_data" /\ ret'.outcome = "return" /\ duration' = 0) =>
          /\ gesture_data' = <<>>
          /\ detected' = -1
          /\ invoked' = <<>>
          /\ current_gesture' = current_gesture
          /\ gesture_confidence' = gesture_confidence
          /\ pc' = "idle"
          /\ ~is_running'
          /\ cap' # "opened"]_vars

\* the unopened handles left aside, the handles the controller has not released
Unreleased == orphans + (IF cap = "opened" THEN 1 ELSE 0)

\* C18 as stated: over any sequence of start_camera, stop_camera,
\* run_realtime, capture_gesture_data and cleanup calls the controller holds
\* at most one unreleased camera handle, is_running is true only while the
\* handle it holds is an opened camera, and whenever it is Idle every handle
\* it ever created has been released.
C18_OneCameraHandle ==
    /\ Unreleased <= 1
    /\ is_running => cap = "opened"
    /\ (pc = "idle" /\ ~is_running) => Unreleased = 0

\* the failure of C18 that needs no exception: start_camera on a Running
\* controller found the device unopened, and the controller still says Running
C18_RunningWithoutCamera ==
    /\ ret = Ret("start_camera", "return", "False")
    /\ setup = "unopened"
    /\ is_running
    /\ cap = "unopened"
    /\ orphans = 1

\* the same failure seen through capture_gesture_data(0): it returned the
\* empty list and the controller, Running before the call, is Running still
C14_ReturnsWhileRunning ==
    /\ ret = Ret("capture_gesture_data", "return", "gesture_data")
    /\ duration = 0
    /\ gesture_data = <<>>
    /\ setup = "unopened"
    /\ is_running
    /\ cap = "unopened"

-----------------------------------------------------------------------------
(* Termination of the run loop, checked under SpecLoop (weak fairness of   *)
(* the loop's iterations)                                                  *)

\* an event the loop has not observed yet is pending
EventPending == pc = "run_realtime" /\ signal # "none"

\* C15: once run_realtime is in its loop, a quit key, a failed frame
\* acquisition or an interruption leads to the loop ending with the
\* controller Idle; the iteration that observes the event is the last one
\* (no later frame is read or processed, no later callback invoked), and a
\* failed acquisition is observed before anything is processed.
C15_EventEndsLoop ==
    /\ EventPending ~> (pc = "idle" /\ ~is_running)
    /\ [][EventPending =>
             /\ pc' = "idle"
             /\ ~is_running'
             /\ signal' = "none"
             /\ ret'.op = "run_realtime"
             /\ ret'.outcome \in {"return", "raise"}
             /\ signal = "no_frame" => (detected' = -1 /\ invoked' = <<>>)]_vars

\* q was pressed: the iteration that polled it had processed a THUMBS_UP
\* frame and fired its callback, then the loop ended
C15_Witness ==
    /\ ret = Ret("run_realtime", "return", "quit")
    /\ pc = "idle"
    /\ ~is_running
    /\ signal = "none"
    /\ detected >= 1
    /\ invoked # <<>>

=============================================================================
